---------------------------- MODULE Spec2Model ----------------------------
(***************************************************************************)
(* A model of elsapy.py: the HTTP client (elsClient) with its sleep-based  *)
(* throttle, and the entities (elsAuthor, elsAffil, elsDoc) that populate  *)
(* themselves from the client's responses.                                 *)
(*                                                                         *)
(* JSON mappings are functions from key strings; a missing key is a key    *)
(* outside the DOMAIN (Python's KeyError).  An object's attributes are a   *)
(* function from attribute names; an attribute that was never assigned is  *)
(* outside the DOMAIN.  Time is counted in ticks, TicksPerSec to a second. *)
(***************************************************************************)
EXTENDS Integers, Sequences, FiniteSets, TLC

VARIABLES
    now,          \* the wall clock (time.time()), in ticks
    tsLastReq,    \* elsClient.__tsLastReq, in ticks
    numRes,       \* elsClient.numRes
    horizon,      \* the clock value up to which the run is followed
    exec,         \* per thread: where its execRequest call stands
    kind,         \* which concrete entity class the object is
    ent,          \* the entity object's attributes
    pc,           \* where thread 1 stands: "idle", "exec" in an execRequest
                  \* it called itself, "read" in read, "first" in readDocs
                  \* before its loop, "loop" in readDocs' loop
    i,            \* readDocs' loop index
    docCount,     \* readDocs' local docCount
    ret,          \* how the last call ended: a return value or an exception
    lastOp,       \* the operation the last response was handled by
    lastResp,     \* what the caller's side saw of the last response
    reqLog,       \* the URLs of the GETs sent during the last call
    sinceTs,      \* the time since the latest timestamp of the calls ended
    sinceAt,      \* the time since the latest GET of the calls ended
    overlapped,   \* whether a call ever began while another was under way
    \* About the last operation, when it was a readDocs (empty otherwise):
    pagesLog,     \* the document lists its pages held, in request order
    docListAtCall,\* the profile's docList when it was called
    reportedTotal,\* the "@total" its first page held
    serverTotal   \* the number of records the simulated service holds

vars == <<now, tsLastReq, numRes, horizon, exec, kind, ent, pc, i, docCount,
          ret, lastOp, lastResp, reqLog, sinceTs, sinceAt, overlapped,
          pagesLog, docListAtCall, reportedTotal, serverTotal>>

---------------------------------------------------------------------------
(* Bounds of the model.                                                    *)

TicksPerSec == 2
MaxDelay == 2
MaxSeconds == 3
MaxExtraPages == 2

---------------------------------------------------------------------------
(* Program constants.                                                      *)

minReqInterval == 1
numResDefault == 25

AuthorPayloadType == "author-retrieval-response"
AffilPayloadType == "affiliation-retrieval-response"
DocPayloadType == "abstracts-retrieval-response"

payloadType(k) ==
    CASE k = "author" -> AuthorPayloadType
      [] k = "affil" -> AffilPayloadType
      [] OTHER -> DocPayloadType

---------------------------------------------------------------------------
(* Python values.                                                          *)

\* str(n) for n >= 0, as the sequence of its decimal digits
RECURSIVE str(_)
str(n) == IF n < 10 THEN <<n>> ELSE Append(str(n \div 10), n % 10)

\* int(s) of a decimal digit string
RECURSIVE int(_)
int(s) ==
    IF Len(s) = 0 THEN 0
    ELSE 10 * int(SubSeq(s, 1, Len(s) - 1)) + s[Len(s)]

\* Assignment to an attribute of an object (or a key of a mapping).
SetAttr(o, a, v) == [x \in DOMAIN o \cup {a} |-> IF x = a THEN v ELSE o[x]]

\* The outcome of a call: a returned value or a raised exception.
\* The empty mapping {} (and the empty list []).
Empty == << >>

\* The outcome of a call: a returned value, or a raised exception with the
\* arguments it was constructed with.
Return(v) == [raised |-> FALSE, value |-> v, args |-> Empty]
Raise(e) == [raised |-> TRUE, value |-> e, args |-> Empty]

\* `raise obj`: an exception class is raised as itself; anything else (here a
\* tuple of classes) makes Python 3 raise TypeError instead.
PyRaise(obj) ==
    IF obj.isTuple THEN Raise("TypeError") ELSE Raise(obj.items[1])

\* The exception classes an `except (HTTPError, RequestException)` clause
\* catches: the two classes and the subclasses of RequestException.
Caught == {"HTTPError", "RequestException", "ConnectionError"}

---------------------------------------------------------------------------
(* URLs: the pieces the code concatenates.                                 *)

Url(base, query, start) == [base |-> base, query |-> query, start |-> start]

ReadUrl(uri) == Url(uri, "", << >>)
DocsUrl(uri) == Url(uri, "?view=documents", << >>)
\* As DocsPageUrl, without the + 1 of the start parameter.
DocsPageUrlNoPlusOne(uri, idx, P) ==
    Url(uri, "?view=documents&start=", str((idx + 1) * P))

DocsPageUrl(uri, idx, P) ==
    Url(uri, "?view=documents&start=", str((idx + 1) * P + 1))

---------------------------------------------------------------------------
(* elsClient.execRequest.                                                  *)

\* A response of the HTTP layer: status 0 stands for requests.get raising
\* ConnectionError (no response at all); text is the body, which is a JSON
\* document when valid.
JsonLoads(text) ==
    IF text.valid THEN Return(text.doc) ELSE Raise("ValueError")

\* The statement executed on a non-200 status (line 59).
RaiseOnError ==
    PyRaise([isTuple |-> TRUE, items |-> <<"HTTPError", "RequestException">>])

\* The outcome of the GET and of the status check (lines 52-60).
Respond(resp) ==
    IF resp.status = 0 THEN Raise("ConnectionError")
    ELSE IF resp.status = 200 THEN JsonLoads(resp.text)
    ELSE RaiseOnError

\* As ThrottleSleep, sleeping one tick less than the remainder.
ThrottleSleepShort(interval) ==
    IF interval + 1 < minReqInterval * TicksPerSec
    THEN minReqInterval * TicksPerSec - interval - 1
    ELSE 0

\* The sleep of the throttle (lines 39-41): interval is what has elapsed since
\* the last request.
ThrottleSleep(interval) ==
    IF interval < minReqInterval * TicksPerSec
    THEN minReqInterval * TicksPerSec - interval
    ELSE 0

\* What has elapsed since the last request, as line 39 computes it.
Interval(clock, ts) == clock - ts

---------------------------------------------------------------------------
(* elsEntity.read and the concrete classes' read.                          *)

\* The payload-key value of a response is the record mapping itself
\* (isList = FALSE, the mapping in map) or a list of mappings (isList = TRUE,
\* the elements in items).  A list has no keys: its map is the empty mapping.
IsList(p) == p.isList

\* As Normalize, without the isinstance check: the value is taken as the
\* mapping whatever its shape.
NormalizeNoCheck(p) == p.map

\* Lines 80-83 (and 105-108, 114-117): the mapping itself, or the first
\* element of the list.
Normalize(p) == IF IsList(p) THEN p.items[1] ELSE p.map

\* Whether d[k1][k2] exists.
Has2(d, k1, k2) == k1 \in DOMAIN d /\ k2 \in DOMAIN d[k1]

\* As OnRaise, with the entity's data dropped when the request failed.
OnRaiseClearing(e, out) ==
    IF out.value \in Caught
    THEN [ent |-> SetAttr(e, "data", Empty), out |-> Return("False")]
    ELSE [ent |-> SetAttr(e, "data", Empty), out |-> out]

\* What a try block of read/readDocs does with the outcome of execRequest
\* that raised: the except clause (lines 86-87, 120-121) returns False for
\* the classes it names, and every other exception propagates.
OnRaise(e, out) ==
    IF out.value \in Caught
    THEN [ent |-> e, out |-> Return("False")]
    ELSE [ent |-> e, out |-> out]

\* elsEntity.read (lines 74-87), given the outcome of execRequest.
elsEntity_read(e, pType, out) ==
    IF out.raised THEN OnRaise(e, out)
    ELSE IF pType \notin DOMAIN out.value
         THEN [ent |-> e, out |-> Raise("KeyError")]
    ELSE LET p == out.value[pType] IN
         IF IsList(p) /\ Len(p.items) = 0
         THEN [ent |-> e, out |-> Raise("IndexError")]
         ELSE LET e1 == SetAttr(e, "data", Normalize(p)) IN
              IF Has2(e1["data"], "coredata", "dc:identifier")
              THEN [ent |-> SetAttr(e1, "ID",
                                    e1["data"]["coredata"]["dc:identifier"]),
                    out |-> Return("True")]
              ELSE [ent |-> e1, out |-> Raise("KeyError")]

\* elsAuthor.read (lines 137-146).
elsAuthor_read(e, out) ==
    LET r == elsEntity_read(e, AuthorPayloadType, out) IN
    IF r.out.raised THEN r
    ELSE IF r.out.value = "True"
    THEN LET d == r.ent["data"] IN
         IF ~Has2(d, "author-profile", "preferred-name")
            \/ "given-name" \notin DOMAIN d["author-profile"]["preferred-name"]
         THEN [ent |-> r.ent, out |-> Raise("KeyError")]
         ELSE LET pn == d["author-profile"]["preferred-name"]
                  e1 == SetAttr(r.ent, "firstName", pn["given-name"])
              IN  IF "surname" \notin DOMAIN pn
                  THEN [ent |-> e1, out |-> Raise("KeyError")]
                  ELSE LET e2 == SetAttr(e1, "lastName", pn["surname"]) IN
                       [ent |-> SetAttr(e2, "fullName",
                                  <<e2["firstName"], " ", e2["lastName"]>>),
                        out |-> Return("True")]
    ELSE [ent |-> r.ent, out |-> Return("False")]

\* elsAffil.read (lines 166-173).
elsAffil_read(e, out) ==
    LET r == elsEntity_read(e, AffilPayloadType, out) IN
    IF r.out.raised THEN r
    ELSE IF r.out.value = "True"
    THEN IF "affiliation-name" \notin DOMAIN r.ent["data"]
         THEN [ent |-> r.ent, out |-> Raise("KeyError")]
         ELSE [ent |-> SetAttr(r.ent, "name", r.ent["data"]["affiliation-name"]),
               out |-> Return("True")]
    ELSE [ent |-> r.ent, out |-> Return("False")]

\* elsDoc.read (lines 193-200).
elsDoc_read(e, out) ==
    LET r == elsEntity_read(e, DocPayloadType, out) IN
    IF r.out.raised THEN r
    ELSE IF r.out.value = "True"
    THEN IF ~Has2(r.ent["data"], "coredata", "dc:title")
         THEN [ent |-> r.ent, out |-> Raise("KeyError")]
         ELSE [ent |-> SetAttr(r.ent, "title",
                               r.ent["data"]["coredata"]["dc:title"]),
               out |-> Return("True")]
    ELSE [ent |-> r.ent, out |-> Return("False")]

\* read of the object's class.
read(k, e, out) ==
    CASE k = "author" -> elsAuthor_read(e, out)
      [] k = "affil" -> elsAffil_read(e, out)
      [] OTHER -> elsDoc_read(e, out)

---------------------------------------------------------------------------
(* elsProfile.readDocs.                                                    *)

\* As ExtraPages, rounding up.
ExtraPagesCeil(total, P) == (total + P - 1) \div P

\* The number of requests after the first (line 111): range(0, n) is empty
\* for n <= 0.
ExtraPages(total, P) == total \div P

\* As Accumulate, with the new page put in front.
AccumulateFront(docs, page) == page \o docs

\* The new docList after a later page (line 118).
Accumulate(docs, page) == docs \o page

\* Lines 103-110: the first request, normalisation, the total and the first
\* page's documents.  total is readDocs' local docCount afterwards.
readDocsFirst(e, pType, out) ==
    IF out.raised THEN OnRaise(e, out) @@ [total |-> 0]
    ELSE IF pType \notin DOMAIN out.value
         THEN [ent |-> e, out |-> Raise("KeyError"), total |-> 0]
    ELSE LET p == out.value[pType] IN
         IF IsList(p) /\ Len(p.items) = 0
         THEN [ent |-> e, out |-> Raise("IndexError"), total |-> 0]
         ELSE LET data == Normalize(p) IN
              IF ~Has2(data, "documents", "@total")
              THEN [ent |-> e, out |-> Raise("KeyError"), total |-> 0]
              ELSE IF "abstract-document" \notin DOMAIN data["documents"]
              THEN [ent |-> e, out |-> Raise("KeyError"),
                    total |-> int(data["documents"]["@total"])]
              ELSE [ent |-> SetAttr(e, "docList",
                                    data["documents"]["abstract-document"]),
                    out |-> Return("True"),
                    total |-> int(data["documents"]["@total"])]

\* Lines 112-118: one later page.
readDocsPage(e, pType, out) ==
    IF out.raised THEN OnRaise(e, out)
    ELSE IF pType \notin DOMAIN out.value
         THEN [ent |-> e, out |-> Raise("KeyError")]
    ELSE LET p == out.value[pType] IN
         IF IsList(p) /\ Len(p.items) = 0
         THEN [ent |-> e, out |-> Raise("IndexError")]
         ELSE LET data == Normalize(p) IN
              IF ~Has2(data, "documents", "abstract-document")
              THEN [ent |-> e, out |-> Raise("KeyError")]
              ELSE [ent |-> SetAttr(e, "docList",
                       Accumulate(e["docList"],
                                  data["documents"]["abstract-document"])),
                    out |-> Return("True")]

---------------------------------------------------------------------------
(* The responses the remote service (in tests, a mock of it) may give.     *)

\* The page sizes the client is configured with: the default and a small
\* one.
PageSizes == {2, numResDefault}

Kinds == {"author", "affil", "doc"}
Profiles == {"author", "affil"}

Uri(k) ==
    CASE k = "author" -> "https://api.elsevier.com/content/author/author_id/123"
      [] k = "affil" -> "https://api.elsevier.com/content/affiliation/affiliation_id/456"
      [] OTHER -> "https://api.elsevier.com/content/abstract/scopus_id/789"

PreferredName(given, sur) ==
    "preferred-name" :> ("given-name" :> given @@ "surname" :> sur)

\* Records of the default view.
Rec1 ==
    "coredata" :> ("dc:identifier" :> "ID:1" @@ "dc:title" :> "Title 1")
    @@ "author-profile" :> PreferredName("Jane", "Doe")
    @@ "affiliation-name" :> "Univ A"
Rec2 ==
    "coredata" :> ("dc:identifier" :> "ID:2" @@ "dc:title" :> "Title 2")
    @@ "author-profile" :> PreferredName("Ann", "Roe")
    @@ "affiliation-name" :> "Univ B"
\* coredata without the identifier
RecNoId ==
    "coredata" :> ("dc:title" :> "Title 1")
    @@ "author-profile" :> PreferredName("Jane", "Doe")
    @@ "affiliation-name" :> "Univ A"
\* only the identifier: the fields of the concrete classes are missing
RecIdOnly == "coredata" :> ("dc:identifier" :> "ID:1")
\* an author's preferred name without the surname
RecNoSurname ==
    "coredata" :> ("dc:identifier" :> "ID:2")
    @@ "author-profile" :> ("preferred-name" :> ("given-name" :> "Ann"))

ReadRecords == {Rec1, Rec2, RecNoId, RecIdOnly, RecNoSurname}

\* Records of the documents view.
DocsRec(total, page) ==
    "documents" :> ("@total" :> str(total) @@ "abstract-document" :> page)
DocsRecNoList(total) == "documents" :> ("@total" :> str(total))

\* The record number a URL of the documents view starts at.
StartOf(URL) == IF URL.start = Empty THEN 1 ELSE int(URL.start)

\* The document lists a mocked page may hold for a request: the two records
\* from the requested start on, or, on the first page, none at all.
MockPages(URL) ==
    {<<StartOf(URL), StartOf(URL) + 1>>}
    \cup (IF URL.start = Empty THEN {Empty} ELSE {})

\* The totals a mocked first page may report for page size P: the least and
\* the greatest total of each number of pages, up to MaxExtraPages more.
Totals(P) ==
    {k * P : k \in 0 .. MaxExtraPages}
    \cup {k * P + P - 1 : k \in 0 .. MaxExtraPages}

DocsRecords(totals, URL) ==
    {DocsRec(t, pg) : t \in totals, pg \in MockPages(URL)}
    \cup {DocsRecNoList(0), Rec1}

\* The shapes of a payload-key value holding record r.
AsMap(r) == [isList |-> FALSE, map |-> r, items |-> Empty]
AsList(rs) == [isList |-> TRUE, map |-> Empty, items |-> rs]
Shapes(r) == {AsMap(r), AsList(<<r>>)}

Text(doc) == [valid |-> TRUE, doc |-> doc]
NotJson == [valid |-> FALSE, doc |-> Empty]

Ok(doc) == [status |-> 200, text |-> Text(doc)]

\* Whatever is not a 200 with a well-shaped body: error statuses, a lost
\* connection, a body that is not JSON, a body under another key, an empty
\* list.
BadResponses(pType) ==
    {[status |-> st, text |-> NotJson] : st \in {0, 404, 200}}
    \cup {Ok("service-error" :> AsMap(Empty)), Ok(pType :> AsList(Empty)),
          Ok(pType :> AsList(<<Rec2, Rec1>>)),
          Ok(pType :> AsList(<<DocsRec(0, <<2>>), DocsRec(1, <<1>>)>>))}

Responses(pType, records) ==
    {Ok(pType :> p) : p \in UNION {Shapes(r) : r \in records}}
    \cup BadResponses(pType)

\* What is kept of a response once it was handled: the status, and the body
\* of an error response.
Seen(resp) ==
    [status |-> resp.status,
     text |-> IF resp.status = 200 THEN Text(Empty) ELSE resp.text]

NoResponse == [status |-> 0, text |-> NotJson]

---------------------------------------------------------------------------
(* The state machine.                                                      *)

\* The threads that call the one client.  Thread Main also works on the
\* entity; of the other one only the calls of execRequest are followed.  A
\* specification with a single caller leaves the other thread idle.
Threads == {1, 2}
Main == 1

Delays == 0 .. MaxDelay
\* How far the clock is followed: long enough for MaxSeconds requests of a
\* single caller, and one second less where two threads call at any pace.
Horizon == MaxSeconds * TicksPerSec
ThrottleHorizon == (MaxSeconds - 1) * TicksPerSec

\* The outcome shown while readDocs is between two requests.
Running == Return("(running)")

NoUrl == Url("", "", << >>)

MinTicks == minReqInterval * TicksPerSec

\* A gap between two times; gaps are recorded up to the minimum request
\* interval.
Capped(gap) == IF gap < MinTicks THEN gap ELSE MinTicks

\* A recorded gap (<< >> when none) after delta more ticks.
Aged(rec, delta) == IF rec = << >> THEN << >> ELSE <<Capped(rec[1] + delta)>>

\* The smaller of a recorded gap (<< >> when none) and gap.
Sooner(rec, gap) == IF rec = << >> \/ gap < rec[1] THEN <<gap>> ELSE rec

\* A thread outside execRequest that has not called it yet.  line is where
\* the thread stands: "idle" outside the call, "clock" inside line 39 with
\* the clock read, "sleep" after line 39, "stamp" inside line 42 with the
\* clock read, "get" after line 42, "wait" inside requests.get once the GET
\* has left.  t0 is the clock line 39 read, interval the local variable it
\* assigned and start the time it was assigned at; ts is the clock line 42
\* read, which it writes to the client's timestamp, and at the time the GET
\* left.  predTs and predAt are the time since the latest timestamp and the
\* latest GET of the calls that had ended when this call began, counted up
\* to t0, then start, then ts.  gapTs is the gap from the latest of those
\* timestamps to this call's timestamp, gapAt the gap from the latest of
\* those GETs to this call's GET (<< >> when no call had ended before this
\* one began).
NoCall ==
    [line |-> "idle", URL |-> NoUrl, t0 |-> 0, interval |-> 0, start |-> 0,
     ts |-> << >>, at |-> << >>,
     predTs |-> << >>, predAt |-> << >>, gapTs |-> << >>, gapAt |-> << >>]

\* Thread t calls execRequest(URL) and, d ticks from now, executes the first
\* half of line 39: it reads the clock.
Line39Clock(t, URL, d) ==
    /\ exec[t].line = "idle"
    /\ now + d <= horizon
    /\ now' = now + d
    /\ exec' = [exec EXCEPT ![t] =
                   [NoCall EXCEPT !.line = "clock", !.URL = URL,
                                  !.t0 = now + d,
                                  !.predTs = Aged(sinceTs, d),
                                  !.predAt = Aged(sinceAt, d)]]
    /\ sinceTs' = Aged(sinceTs, d)
    /\ sinceAt' = Aged(sinceAt, d)
    /\ overlapped' = (overlapped
                      \/ \E u \in Threads \ {t} : exec[u].line # "idle")
    /\ UNCHANGED tsLastReq

\* Thread t executes the second half of line 39: it reads the client's
\* timestamp as it is now, which another thread may have written since this
\* thread read the clock, and assigns interval.  The step takes place at the
\* present clock: time passes with the steps that read the clock or send.
Line39Read(t) ==
    /\ exec[t].line = "clock"
    /\ exec' = [exec EXCEPT ![t] =
                   [@ EXCEPT !.line = "sleep", !.t0 = 0,
                             !.interval = Interval(exec[t].t0, tsLastReq),
                             !.start = now,
                             !.predTs = Aged(@, now - exec[t].t0),
                             !.predAt = Aged(@, now - exec[t].t0)]]
    /\ UNCHANGED <<now, tsLastReq, sinceTs, sinceAt, overlapped>>

\* Thread t executes lines 40-41 and the first half of line 42: it sleeps
\* when the interval it computed is short, and then reads the clock.
\* time.sleep returns no earlier than asked; d is the time that passes on top
\* of that.
Lines40to42Clock(t, d) ==
    /\ exec[t].line = "sleep"
    /\ LET wake == exec[t].start + ThrottleSleep(exec[t].interval)
           t1 == (IF wake > now THEN wake ELSE now) + d
       IN  /\ t1 <= horizon
           /\ now' = t1
           /\ exec' = [exec EXCEPT ![t] =
                          [@ EXCEPT !.line = "stamp", !.interval = 0,
                                    !.start = 0, !.ts = <<t1>>,
                                    !.predTs = << >>,
                                    !.predAt = Aged(@, t1 - exec[t].start),
                                    !.gapTs = Aged(exec[t].predTs,
                                                   t1 - exec[t].start)]]
           /\ sinceTs' = Aged(sinceTs, t1 - now)
           /\ sinceAt' = Aged(sinceAt, t1 - now)
    /\ UNCHANGED <<tsLastReq, overlapped>>

\* Thread t executes the second half of line 42: it writes the clock it read
\* to the client's timestamp, over whatever another thread has written since.
Line42Store(t) ==
    /\ exec[t].line = "stamp"
    /\ tsLastReq' = exec[t].ts[1]
    /\ exec' = [exec EXCEPT ![t] = [@ EXCEPT !.line = "get"]]
    /\ UNCHANGED <<now, sinceTs, sinceAt, overlapped>>

\* Thread t executes lines 44-52 up to the sending: d ticks from now it has
\* built the headers and called requests.get, and the GET leaves.  The
\* thread then waits inside requests.get while other threads run.
Lines44to52(t, d) ==
    /\ exec[t].line = "get"
    /\ now + d <= horizon
    /\ now' = now + d
    /\ exec' = [exec EXCEPT ![t] =
                   [@ EXCEPT !.line = "wait", !.at = <<now + d>>,
                             !.predAt = << >>,
                             !.gapAt = Aged(exec[t].predAt,
                                            now + d - exec[t].ts[1])]]
    /\ sinceTs' = Aged(sinceTs, d)
    /\ sinceAt' = Aged(sinceAt, d)
    /\ UNCHANGED <<tsLastReq, overlapped>>

\* Thread t executes the rest of the call (lines 52-59): d ticks from now the
\* response is there, requests.get returns and the call ends with the outcome
\* of the response.
Lines52to59(t, d) ==
    /\ exec[t].line = "wait"
    /\ now + d <= horizon
    /\ now' = now + d
    /\ exec' = [exec EXCEPT ![t] = NoCall]
    /\ sinceTs' = Sooner(Aged(sinceTs, d), Capped(now + d - exec[t].ts[1]))
    /\ sinceAt' = Sooner(Aged(sinceAt, d), Capped(now + d - exec[t].at[1]))
    /\ UNCHANGED <<tsLastReq, overlapped>>

\* The "@total" a response carries under the payload key, as the service
\* sent it (empty when it carries none).
ServedTotal(resp, pType) ==
    IF resp.status = 200 /\ resp.text.valid /\ pType \in DOMAIN resp.text.doc
    THEN LET p == resp.text.doc[pType]
             r == IF p.isList
                  THEN (IF Len(p.items) > 0 THEN p.items[1] ELSE Empty)
                  ELSE p.map
         IN  IF Has2(r, "documents", "@total")
             THEN r["documents"]["@total"]
             ELSE Empty
    ELSE Empty

\* The document list a response carries under the payload key, as the
\* service sent it (empty when it carries none).
ServedDocs(resp, pType) ==
    IF resp.status = 200 /\ resp.text.valid /\ pType \in DOMAIN resp.text.doc
    THEN LET p == resp.text.doc[pType]
             r == IF p.isList
                  THEN (IF Len(p.items) > 0 THEN p.items[1] ELSE Empty)
                  ELSE p.map
         IN  IF Has2(r, "documents", "abstract-document")
             THEN r["documents"]["abstract-document"]
             ELSE Empty
    ELSE Empty

\* elsEntity.__init__ and the constructors of the concrete classes.
NewEntity(k) ==
    IF k = "author"
    THEN "uri" :> Uri(k) @@ "firstName" :> "" @@ "lastName" :> ""
    ELSE "uri" :> Uri(k)


InitObjects ==
    /\ now = 0
    /\ tsLastReq = 0
    /\ exec = [t \in Threads |-> NoCall]
    /\ kind \in Kinds
    /\ ent = NewEntity(kind)
    /\ pc = "idle"
    /\ i = 0
    /\ docCount = 0
    /\ ret = Return("None")
    /\ lastOp = "new"
    /\ lastResp = NoResponse
    /\ reqLog = << >>
    /\ sinceTs = << >>
    /\ sinceAt = << >>
    /\ overlapped = FALSE
    /\ pagesLog = << >>
    /\ docListAtCall = << >>
    /\ reportedTotal = << >>

Init ==
    /\ InitObjects
    /\ numRes \in PageSizes
    /\ horizon = Horizon
    /\ serverTotal = 0

\* Thread t calls execRequest itself.
ExecRequestCall(t, URL, d) ==
    /\ t = Main => pc = "idle"
    /\ Line39Clock(t, URL, d)
    /\ pc' = IF t = Main THEN "exec" ELSE pc
    /\ UNCHANGED <<numRes, horizon, kind, ent, i, docCount, ret, lastOp,
                   lastResp, reqLog, pagesLog, docListAtCall, reportedTotal,
                   serverTotal>>

\* The rest of line 39 of thread t's call of execRequest, whoever called it.
ExecRequestInterval(t) ==
    /\ Line39Read(t)
    /\ UNCHANGED <<numRes, horizon, kind, ent, pc, i, docCount, ret, lastOp,
                   lastResp, reqLog, pagesLog, docListAtCall, reportedTotal,
                   serverTotal>>

\* The store of line 42 of thread t's call of execRequest, whoever called it.
ExecRequestStamp(t) ==
    /\ Line42Store(t)
    /\ UNCHANGED <<numRes, horizon, kind, ent, pc, i, docCount, ret, lastOp,
                   lastResp, reqLog, pagesLog, docListAtCall, reportedTotal,
                   serverTotal>>

\* The throttle of thread t's call of execRequest, whoever called it.
ExecRequestThrottle(t, d) ==
    /\ Lines40to42Clock(t, d)
    /\ UNCHANGED <<numRes, horizon, kind, ent, pc, i, docCount, ret, lastOp,
                   lastResp, reqLog, pagesLog, docListAtCall, reportedTotal,
                   serverTotal>>

\* The sending of the GET of thread t's call of execRequest, whoever called
\* it.
ExecRequestSend(t, d) ==
    /\ Lines44to52(t, d)
    /\ UNCHANGED <<numRes, horizon, kind, ent, pc, i, docCount, ret, lastOp,
                   lastResp, reqLog, pagesLog, docListAtCall, reportedTotal,
                   serverTotal>>

\* The response to the GET of the execRequest that thread Main called
\* itself, and the call's outcome.
ExecRequestReturn(resp, d) ==
    /\ pc = "exec"
    /\ Lines52to59(Main, d)
    /\ ret' = Respond(resp)
    /\ reqLog' = <<exec[Main].URL>>
    /\ lastOp' = "execRequest"
    /\ lastResp' = Seen(resp)
    /\ pc' = "idle"
    /\ UNCHANGED <<numRes, horizon, kind, ent, i, docCount, pagesLog,
                   docListAtCall, reportedTotal, serverTotal>>

\* The response to the GET of an execRequest of another thread; the outcome
\* goes to that thread and is not recorded.
ExecRequestElsewhere(t, d) ==
    /\ t # Main
    /\ Lines52to59(t, d)
    /\ UNCHANGED <<numRes, horizon, kind, ent, pc, i, docCount, ret, lastOp,
                   lastResp, reqLog, pagesLog, docListAtCall, reportedTotal,
                   serverTotal>>

\* entity.read(client), up to line 39 of its execRequest.
ReadCall(d) ==
    /\ pc = "idle"
    /\ Line39Clock(Main, ReadUrl(ent["uri"]), d)
    /\ pc' = "read"
    /\ UNCHANGED <<numRes, horizon, kind, ent, i, docCount, ret, lastOp,
                   lastResp, reqLog, pagesLog, docListAtCall, reportedTotal,
                   serverTotal>>

\* The response to the GET of read's execRequest, the end of that call and
\* the rest of read.
Read(resp, d) ==
    /\ pc = "read"
    /\ Lines52to59(Main, d)
    /\ LET r == read(kind, ent, Respond(resp)) IN
       /\ ent' = r.ent
       /\ ret' = r.out
    /\ reqLog' = <<exec[Main].URL>>
    /\ lastOp' = "read"
    /\ lastResp' = Seen(resp)
    /\ pc' = "idle"
    /\ pagesLog' = << >>
    /\ docListAtCall' = << >>
    /\ reportedTotal' = << >>
    /\ UNCHANGED <<numRes, horizon, kind, i, docCount, serverTotal>>

\* profile.readDocs(client), up to line 39 of its first execRequest.
ReadDocsCall(d) ==
    /\ pc = "idle"
    /\ kind \in Profiles
    /\ Line39Clock(Main, DocsUrl(ent["uri"]), d)
    /\ pc' = "first"
    /\ UNCHANGED <<numRes, horizon, kind, ent, i, docCount, ret, lastOp,
                   lastResp, reqLog, pagesLog, docListAtCall, reportedTotal,
                   serverTotal>>

\* The response to the GET of readDocs' first execRequest, the end of that
\* call and readDocs up to its loop; when no further page is due, its return.
ReadDocsFirst(resp, d) ==
    /\ pc = "first"
    /\ Lines52to59(Main, d)
    /\ LET r == readDocsFirst(ent, payloadType(kind), Respond(resp))
           ok == ~r.out.raised /\ r.out.value = "True"
           more == ok /\ 0 < ExtraPages(r.total, numRes)
       IN  /\ ent' = r.ent
           /\ ret' = IF more THEN Running ELSE r.out
           /\ pc' = IF more THEN "loop" ELSE "idle"
           /\ docCount' = IF more THEN r.total ELSE 0
           /\ pagesLog' = IF ok THEN <<ServedDocs(resp, payloadType(kind))>>
                          ELSE << >>
    /\ i' = 0
    /\ reqLog' = <<exec[Main].URL>>
    /\ docListAtCall' = IF "docList" \in DOMAIN ent THEN <<ent["docList"]>>
                        ELSE << >>
    /\ reportedTotal' = ServedTotal(resp, payloadType(kind))
    /\ lastOp' = "readDocs"
    /\ lastResp' = Seen(resp)
    /\ UNCHANGED <<numRes, horizon, kind, serverTotal>>

\* One iteration of readDocs' loop, up to line 39 of its execRequest.
ReadDocsNext(d) ==
    /\ pc = "loop"
    /\ Line39Clock(Main, DocsPageUrl(ent["uri"], i, numRes), d)
    /\ UNCHANGED <<numRes, horizon, kind, ent, pc, i, docCount, ret, lastOp,
                   lastResp, reqLog, pagesLog, docListAtCall, reportedTotal,
                   serverTotal>>

\* The response to the GET of that iteration's execRequest, the end of that
\* call, the rest of the iteration and, after the last one, readDocs' return.
ReadDocsPage(resp, d) ==
    /\ pc = "loop"
    /\ Lines52to59(Main, d)
    /\ LET r == readDocsPage(ent, payloadType(kind), Respond(resp))
           ok == ~r.out.raised /\ r.out.value = "True"
           more == ok /\ i + 1 < ExtraPages(docCount, numRes)
       IN  /\ ent' = r.ent
           /\ ret' = IF more THEN Running ELSE r.out
           /\ pc' = IF more THEN "loop" ELSE "idle"
           /\ i' = IF more THEN i + 1 ELSE 0
           /\ docCount' = IF more THEN docCount ELSE 0
           /\ pagesLog' = IF ok
                          THEN Append(pagesLog,
                                      ServedDocs(resp, payloadType(kind)))
                          ELSE pagesLog
    /\ reqLog' = Append(reqLog, exec[Main].URL)
    /\ lastResp' = Seen(resp)
    /\ UNCHANGED <<numRes, horizon, kind, lastOp, docListAtCall,
                   reportedTotal, serverTotal>>

\* Thread Main is in the operation op and awaits the response to its GET.
Awaiting(op) == pc = op /\ exec[Main].line = "wait"

\* One caller works on the entity, one operation after the other and without
\* pausing; the responses are any the service may give.
Next ==
    \/ ReadCall(0)
    \/ ReadDocsCall(0)
    \/ ReadDocsNext(0)
    \/ ExecRequestInterval(Main)
    \/ ExecRequestThrottle(Main, 0)
    \/ ExecRequestStamp(Main)
    \/ ExecRequestSend(Main, 0)
    \/ /\ Awaiting("read")
       /\ \E resp \in Responses(payloadType(kind), ReadRecords) :
             Read(resp, 0)
    \/ /\ Awaiting("first")
       /\ \E resp \in Responses(payloadType(kind),
                                DocsRecords(Totals(numRes), exec[Main].URL)) :
             ReadDocsFirst(resp, 0)
    \/ /\ Awaiting("loop")
       /\ \E resp \in Responses(payloadType(kind),
                                DocsRecords({docCount}, exec[Main].URL)) :
             ReadDocsPage(resp, 0)

Spec == Init /\ [][Next]_vars

\* What the service answers in the specification of the throttle.
ThrottleResponses ==
    {Ok(payloadType(kind) :> AsMap(Rec1)),
     [status |-> 0, text |-> NotJson],
     [status |-> 500, text |-> NotJson]}

\* Two threads share the client and call execRequest at any pace, one after
\* the other or both at once.  The calls
\* of the other thread stand for any use it makes of the client, directly or
\* through the read or readDocs of an entity of its own.
NextThrottle ==
    \/ \E t \in Threads, d \in Delays :
          ExecRequestCall(t, ReadUrl(Uri(kind)), d)
    \/ \E t \in Threads : ExecRequestInterval(t)
    \/ \E t \in Threads, d \in Delays : ExecRequestThrottle(t, d)
    \/ \E t \in Threads : ExecRequestStamp(t)
    \/ \E t \in Threads, d \in Delays : ExecRequestSend(t, d)
    \/ \E d \in Delays, resp \in ThrottleResponses :
          ExecRequestReturn(resp, d)
    \/ \E t \in Threads, d \in Delays : ExecRequestElsewhere(t, d)

InitThrottle ==
    /\ InitObjects
    /\ kind = "doc"
    /\ numRes = numResDefault
    /\ horizon = ThrottleHorizon
    /\ serverTotal = 0

SpecThrottle == InitThrottle /\ [][NextThrottle]_vars

---------------------------------------------------------------------------
(* The entities against a service that holds the records 1 .. serverTotal. *)

\* The records s .. min(s + P - 1, T), none when s > T.
ServerPage(T, P, s) ==
    LET last == IF s + P - 1 < T THEN s + P - 1 ELSE T IN
    IF s > T THEN Empty ELSE [k \in 1 .. (last - s + 1) |-> s + k - 1]

\* The service's answer to a request of the documents view.
ServerAnswer(pType, T, P, URL, asList) ==
    LET r == DocsRec(T, ServerPage(T, P, StartOf(URL))) IN
    Ok(pType :> (IF asList THEN AsList(<<r>>) ELSE AsMap(r)))

\* The answers of a service that is out of order.
ServerErrors ==
    {[status |-> st, text |-> NotJson] : st \in {0, 404}}

InitServer ==
    /\ InitObjects
    /\ kind \in Profiles
    /\ numRes \in PageSizes \cup {1, 3}
    /\ horizon = Horizon
    /\ serverTotal \in 0 .. (MaxExtraPages + 1) * numRes - 1

NextServer ==
    \/ ReadDocsCall(0)
    \/ ReadDocsNext(0)
    \/ ExecRequestInterval(Main)
    \/ ExecRequestThrottle(Main, 0)
    \/ ExecRequestStamp(Main)
    \/ ExecRequestSend(Main, 0)
    \/ /\ Awaiting("first")
       /\ \E asList \in BOOLEAN :
             ReadDocsFirst(ServerAnswer(payloadType(kind), serverTotal,
                                        numRes, exec[Main].URL, asList), 0)
    \/ /\ Awaiting("loop")
       /\ \E asList \in BOOLEAN :
             ReadDocsPage(ServerAnswer(payloadType(kind), serverTotal,
                                       numRes, exec[Main].URL, asList), 0)
    \/ \E resp \in ServerErrors : ReadDocsFirst(resp, 0)
    \/ \E resp \in ServerErrors : ReadDocsPage(resp, 0)

SpecServer == InitServer /\ [][NextServer]_vars

---------------------------------------------------------------------------
(* The claims.                                                             *)

\* The last operation was op and it has ended.
Finished(op) == lastOp = op /\ pc = "idle"

\* The last operation returned v.
Returned(v) == ~ret.raised /\ ret.value = v

\* The last response had a status other than 200.
ErrorStatus == lastResp.status \notin {0, 200}

\* The entity's docList: << >> when the attribute is not set, else <<list>>.
DocListNow == IF "docList" \in DOMAIN ent THEN <<ent["docList"]>> ELSE << >>

RECURSIVE Flatten(_)
Flatten(lists) ==
    IF Len(lists) = 0 THEN Empty ELSE Head(lists) \o Flatten(Tail(lists))


\* C1: when a request of read or readDocs gets a non-200 status, the
\* operation returns False and raises nothing.
C1_ErrorStatusReturnsFalse ==
    ((Finished("read") \/ Finished("readDocs")) /\ ErrorStatus)
        => Returned("False")

\* C2 (as claimed): of two consecutive calls of execRequest on the client,
\* the later one beginning after the earlier one has ended, the later request
\* is sent at least the minimum request interval after the earlier one.  It
\* is stated of the runs the client is made for, in which no call begins
\* while another is under way.
C2_SendTimesApart ==
    ~overlapped =>
        \A t \in Threads :
            exec[t].gapAt # << >> => exec[t].gapAt[1] >= MinTicks

\* C2 (amended): as long as no call has begun while another was under way,
\* the timestamp a call writes is at least the minimum request interval after
\* the timestamp of every call that had ended when it began (and after the
\* timestamp the class was defined with), and it is written, and is the
\* client's timestamp, before the call's request is sent.
C2_TimestampsApart ==
    ~overlapped =>
        \A t \in Threads :
            /\ exec[t].gapTs # << >> => exec[t].gapTs[1] >= MinTicks
            /\ exec[t].line \in {"stamp", "get", "wait"} =>
                  /\ exec[t].ts # << >>
                  /\ MinTicks <= exec[t].ts[1]
            /\ exec[t].line \in {"get", "wait"} =>
                  tsLastReq = exec[t].ts[1]
            /\ exec[t].line = "wait" => exec[t].ts[1] <= exec[t].at[1]

\* No call has begun while another was under way, and a call that began
\* after another had ended wrote its timestamp the whole interval after that
\* one's and has sent its request less than the interval after that one's
\* was sent.
C2_Witness ==
    /\ ~overlapped
    /\ \E t \in Threads :
          /\ exec[t].line = "wait"
          /\ exec[t].gapTs = <<MinTicks>>
          /\ exec[t].gapAt # << >>
          /\ exec[t].gapAt[1] < MinTicks

\* C3: a readDocs whose requests all succeed sends 1 + floor(T/P) requests:
\* uri?view=documents, then uri?view=documents&start=k*P+1 for k = 1 ..
\* floor(T/P), in this order, T being the total its first page reported.
C3_RequestSequence ==
    (Finished("readDocs") /\ Returned("True")) =>
        LET n == int(reportedTotal) \div numRes IN
        /\ Len(reqLog) = 1 + n
        /\ reqLog[1] = [base |-> Uri(kind), query |-> "?view=documents",
                        start |-> Empty]
        /\ \A k \in 1 .. n :
              reqLog[k + 1] =
                  [base |-> Uri(kind), query |-> "?view=documents&start=",
                   start |-> str(k * numRes + 1)]

\* A readDocs of three requests for a total of exactly two pages.
C3_Witness ==
    /\ Finished("readDocs") /\ Returned("True")
    /\ int(reportedTotal) = 2 * numRes
    /\ Len(reqLog) = 3

\* C4: when readDocs ends because a page got a non-200 status, docList is
\* what it was when readDocs was called.
C4_DocListAsBefore ==
    (Finished("readDocs") /\ ErrorStatus) => DocListNow = docListAtCall

\* C5: a read whose request gets a non-200 status changes no attribute of the
\* entity.
C5_FailedReadChangesNothing ==
    [][(pc = "read" /\ pc' = "idle" /\ lastResp'.status \notin {0, 200})
           => ent' = ent]_vars

\* A read that got a non-200 status, on an entity that an earlier read and an
\* earlier readDocs had populated.
C5_Witness ==
    /\ Finished("read") /\ ErrorStatus
    /\ {"data", "ID", "docList"} \subseteq DOMAIN ent

\* C6: after a readDocs that returned True, docList is the concatenation, in
\* request order, of the document lists its pages held, one per request.
C6_DocListIsConcatenation ==
    (Finished("readDocs") /\ Returned("True")) =>
        /\ DocListNow = <<Flatten(pagesLog)>>
        /\ Len(pagesLog) = Len(reqLog)

\* A readDocs of several pages on a profile whose docList held other
\* documents before.
C6_Witness ==
    /\ Finished("readDocs") /\ Returned("True")
    /\ Len(pagesLog) >= 2
    /\ docListAtCall # << >> /\ docListAtCall[1] # Empty
    /\ ent["docList"] # Empty
    /\ \A k \in DOMAIN ent["docList"] :
          \A j \in DOMAIN docListAtCall[1] :
              ent["docList"][k] # docListAtCall[1][j]

\* The response of status 200 whose payload-key value is the mapping r, and
\* the one whose value is the one-element list of r.
MapResponse(r) == Ok(payloadType(kind) :> AsMap(r))
ListResponse(r) == Ok(payloadType(kind) :> AsList(<<r>>))

\* C7: for read and for every page of readDocs, the response holding a record
\* mapping and the one holding the one-element list of that mapping lead to
\* the same entity and the same outcome.
C7_ShapesAgree ==
    /\ Awaiting("read") =>
          \A r \in ReadRecords :
              read(kind, ent, Respond(MapResponse(r)))
                  = read(kind, ent, Respond(ListResponse(r)))
    /\ Awaiting("first") =>
          \A r \in DocsRecords(Totals(numRes), exec[Main].URL) :
              readDocsFirst(ent, payloadType(kind), Respond(MapResponse(r)))
                  = readDocsFirst(ent, payloadType(kind),
                                  Respond(ListResponse(r)))
    /\ Awaiting("loop") =>
          \A r \in DocsRecords({docCount}, exec[Main].URL) :
              readDocsPage(ent, payloadType(kind), Respond(MapResponse(r)))
                  = readDocsPage(ent, payloadType(kind),
                                 Respond(ListResponse(r)))

\* A populated author awaiting a later page of readDocs: a state both shapes
\* of the earlier responses lead to, and in which either shape may come next.
C7_Witness ==
    /\ kind = "author"
    /\ Awaiting("loop")
    /\ {"ID", "fullName"} \subseteq DOMAIN ent
    /\ ent["fullName"] = <<"Jane", " ", "Doe">>
    /\ ent["docList"] = <<1, 2>>

\* C8: one call of execRequest sends one GET, and on a status other than 200
\* it raises an HTTPError that carries the status code and the raw body.
C8_HttpErrorCarriesResponse ==
    (lastOp = "execRequest" /\ ErrorStatus) =>
        /\ Len(reqLog) = 1
        /\ ret.raised
        /\ ret.value = "HTTPError"
        /\ ret.args = <<lastResp.status, lastResp.text>>

\* C9: against the service that holds the records 1 .. T, a readDocs that
\* returned True leaves docList = 1, 2, ..., T.
C9_AllRecordsOnce ==
    (Finished("readDocs") /\ Returned("True")) =>
        DocListNow = <<[k \in 1 .. serverTotal |-> k]>>

\* A readDocs of three requests against a service whose total is exactly two
\* pages.
C9_Witness ==
    /\ Finished("readDocs") /\ Returned("True")
    /\ serverTotal = 2 * numRes
    /\ Len(reqLog) = 3

\* C10: data and ID are both unset, or both set with ID the identifier in the
\* coredata of data.
C10_DataAndIdAgree ==
    \/ "data" \notin DOMAIN ent /\ "ID" \notin DOMAIN ent
    \/ /\ {"data", "ID"} \subseteq DOMAIN ent
       /\ Has2(ent["data"], "coredata", "dc:identifier")
       /\ ent["ID"] = ent["data"]["coredata"]["dc:identifier"]

===========================================================================
